---- MODULE Spec2Model ----
(***************************************************************************)
(* A model of the two command line tools of jfrog-sagen:                   *)
(*                                                                         *)
(*   xray/reports.py          _report_summaries_generator (the paginated   *)
(*                            walk of the Xray reports collection) and its *)
(*                            consumer export_definitions;                 *)
(*   artifactory/sites_diff.py  diff (repository level and artifact level  *)
(*                            differences between two Artifactory sites).  *)
(*                                                                         *)
(* In the report tool every HTTP call is two steps, the request being     *)
(* sent and its response (or its HTTPError) arriving, so that the calls in *)
(* flight are a part of the state.  In the diff tool a call is one step    *)
(* with two outcomes.  The remote services are inputs: a report page, a    *)
(* repository listing or an artifact listing is chosen when its response   *)
(* arrives.                                                                *)
(***************************************************************************)
EXTENDS Integers, Sequences, FiniteSets, TLC

\* ------------------------------------------------------------------------
\* Bounds of the report collection
\* ------------------------------------------------------------------------
MaxPages == 3

MaxRows == 2

ReportIds == {1, 2}

ReportNames == {"weekly"}

VARIABLES
    \* ---- xray/reports.py ----
    source,          \* the remote collection: page number -> decoded JSON body,
                     \* for the pages the service has answered
    page_num,        \* _report_summaries_generator: page_num
    reports,         \* _report_summaries_generator: reports (current page)
    idx,             \* position of the `for definition in reports` loop
    gen_pc,          \* where the generator is: created/awaiting/suspended/returned/raised
    pc,              \* where export_definitions is
    item,            \* (report_id, report_name, definition) bound by the for loop
    in_flight,       \* HTTP requests sent and not yet answered
    fetch_log,       \* page numbers requested, in order
    delivered,       \* tuples yielded to the consumer, in order
    writes,          \* files written to output_dir, in order
    detail_log,      \* report ids whose details were requested, in order
    failed_page,     \* page whose fetch raised HTTPError (0: none)
    \* ---- artifactory/sites_diff.py ----
    exclude_artifacts,   \* diff: the --exclude-artifacts flag
    repositories_1,      \* diff: repositories_1 (key -> descriptor)
    repositories_2,      \* diff: repositories_2
    missing_in_1,        \* diff: missing_in_1 (set of keys)
    missing_in_2,        \* diff: missing_in_2
    exists_in_both,      \* diff: exists_in_both
    rclass_mismatch,     \* diff: rclass_mismatch (list of keys)
    artifacts_report,    \* diff: artifacts_report (None or key -> record)
    to_visit,            \* keys the loop over exists_in_both has not reached
    key,                 \* diff: key of the current iteration
    items_in_1,          \* diff: items_in_1 (uri -> descriptor)
    items_in_2,          \* diff: items_in_2
    diff_pc,             \* where diff is
    stdout,              \* what json.dump wrote: nothing, or the report
    list_calls,          \* artifact listings requested: <<side, key>>, in order
    compared,            \* key -> its record (or None) when its comparison ended
    failed_call          \* the call that raised HTTPError, if any

diffVars == <<exclude_artifacts, repositories_1, repositories_2, missing_in_1,
              missing_in_2, exists_in_both, rclass_mismatch, artifacts_report,
              to_visit, key, items_in_1, items_in_2, diff_pc, stdout,
              list_calls, compared, failed_call>>

reportVars == <<source, page_num, reports, idx, gen_pc, pc, item, in_flight,
                fetch_log, delivered, writes, detail_log, failed_page>>

vars == <<reportVars, diffVars>>

\* ------------------------------------------------------------------------
\* Helpers
\* ------------------------------------------------------------------------
SeqsUpTo(S, n) == UNION {[1..k -> S] : k \in 0..n}

Definitions == [id : ReportIds, name : ReportNames]

\* The decoded body of a page: normally it has a "reports" list; a body
\* without the key is also a possible answer of the service.
PageBodies == {[reports |-> p] : p \in SeqsUpTo(Definitions, MaxRows)}
                \cup {[total_reports |-> 0]}

\* response.json() of page n: what the service has answered for the page
\* before, else any body.  The collection is finite: past page MaxPages the
\* service answers with an empty list.
ResponseJson(n) ==
    IF n \in DOMAIN source THEN {source[n]}
    ELSE IF n <= MaxPages THEN PageBodies
    ELSE {[reports |-> <<>>]}

\* result.get("reports", [])
ResultGetReports(result) ==
    IF "reports" \in DOMAIN result THEN result.reports ELSE <<>>

\* yield definition["id"], definition["name"], definition
YieldedTuple(definition) == <<definition.id, definition.name, definition>>

NoItem == <<>>

\* Variant: the page number advances by two
NextPageNum_Skip(n) == n + 2

\* page_num += 1
NextPageNum(n) == n + 1

PageRequest(n) == [kind |-> "page", arg |-> n]

DetailRequest(id) == [kind |-> "detail", arg |-> id]

SummaryFile(report_id, definition) ==
    [path |-> <<report_id, "summary">>, content |-> definition]

DetailsFile(report_id) ==
    [path |-> <<report_id, "details">>, content |-> [report_id |-> report_id]]

\* ------------------------------------------------------------------------
\* The two Artifactory sites
\* ------------------------------------------------------------------------
RepoKeys == {"lib-a", "lib-b"}

RepoTypes == {"LOCAL", "REMOTE", "VIRTUAL"}

Uris == {"x.jar", "y.jar"}

\* (sha1, sha2) of a stored file: the first two differ in sha2 alone, the
\* first and the third in sha1 alone, the last two in both
Checksums == {<<"h1", "h2">>, <<"h1", "h3">>, <<"h4", "h2">>}

\* {item["key"]: item for item in response.json()}
RepositoryListings ==
    UNION {{[k \in K |-> [key |-> k, type |-> t[k]]] : t \in [K -> RepoTypes]}
           : K \in SUBSET RepoKeys}

\* {item["uri"]: item for item in response.json()["files"]}
ItemListings ==
    UNION {{[u \in U |-> [uri |-> u, sha1 |-> h[u][1], sha2 |-> h[u][2]]]
            : h \in [U -> Checksums]}
           : U \in SUBSET Uris}

EmptyMap == [k \in {} |-> {}]

\* Python's None, and a value that is not None
None == <<>>

Some(v) == <<v>>

NoKey == ""

\* list(a_set), and the order in which a for loop visits a set: any order,
\* every element once
Orderings(S) ==
    {o \in [1..Cardinality(S) -> S] : \A i, j \in DOMAIN o : i # j => o[i] # o[j]}

Range(f) == {f[i] : i \in DOMAIN f}

DiffStart ==
    /\ repositories_1 = EmptyMap
    /\ repositories_2 = EmptyMap
    /\ missing_in_1 = {}
    /\ missing_in_2 = {}
    /\ exists_in_both = {}
    /\ rclass_mismatch = <<>>
    /\ artifacts_report = None
    /\ to_visit = {}
    /\ key = NoKey
    /\ items_in_1 = EmptyMap
    /\ items_in_2 = EmptyMap
    /\ diff_pc = "start"
    /\ stdout = None
    /\ list_calls = <<>>
    /\ compared = EmptyMap
    /\ failed_call = None

\* ------------------------------------------------------------------------
\* xray/reports.py
\* ------------------------------------------------------------------------
ReportsStart ==
    /\ page_num = 1
    /\ reports = <<>>
    /\ idx = 0
    /\ gen_pc = "created"
    /\ pc = "for"
    /\ item = NoItem
    /\ in_flight = {}
    /\ fetch_log = <<>>
    /\ delivered = <<>>
    /\ writes = <<>>
    /\ detail_log = <<>>
    /\ failed_page = 0

InitReports ==
    /\ source = EmptyMap
    /\ ReportsStart
    /\ DiffStart
    /\ exclude_artifacts = FALSE

\* requests.post(.../xray/api/v1/reports, page_num=n) is sent
SendPageRequest(n) ==
    /\ in_flight' = in_flight \cup {PageRequest(n)}
    /\ fetch_log' = Append(fetch_log, n)
    /\ gen_pc' = "awaiting"

\* The for loop of export_definitions asks the generator for its next value
\* and the generator runs to its next page request: on the first call from
\* the top of the function, afterwards from the end of a page.
ForNextFetch ==
    /\ UNCHANGED diffVars
    /\ pc = "for"
    /\ \/ /\ gen_pc = "created"
          /\ page_num' = 1
       \/ /\ gen_pc = "suspended"
          /\ idx = Len(reports)
          /\ page_num' = NextPageNum(page_num)
    /\ SendPageRequest(page_num')
    /\ pc' = "in_generator"
    /\ UNCHANGED <<source, reports, idx, item, delivered, writes, detail_log, failed_page>>

\* ... or the generator resumes inside a page and yields its next record.
ForNextYield ==
    /\ UNCHANGED diffVars
    /\ pc = "for"
    /\ gen_pc = "suspended"
    /\ idx < Len(reports)
    /\ idx' = idx + 1
    /\ item' = YieldedTuple(reports[idx'])
    /\ delivered' = Append(delivered, item')
    /\ pc' = "body"
    /\ UNCHANGED <<source, page_num, reports, gen_pc, in_flight, fetch_log,
                   writes, detail_log, failed_page>>

\* Variant: the next page is requested as soon as a non-empty page arrives
PageResponse_Prefetch ==
    /\ UNCHANGED diffVars
    /\ gen_pc = "awaiting"
    /\ PageRequest(page_num) \in in_flight
    /\ \E result \in ResponseJson(page_num) :
           /\ source' = (page_num :> result) @@ source
           /\ reports' = ResultGetReports(result)
    /\ IF reports' = <<>>
       THEN /\ gen_pc' = "returned"
            /\ pc' = "done"
            /\ in_flight' = in_flight \ {PageRequest(page_num)}
            /\ UNCHANGED <<idx, item, delivered, fetch_log>>
       ELSE /\ gen_pc' = "suspended"
            /\ idx' = 1
            /\ item' = YieldedTuple(reports'[1])
            /\ delivered' = Append(delivered, item')
            /\ in_flight' = (in_flight \ {PageRequest(page_num)})
                                \cup {PageRequest(page_num + 1)}
            /\ fetch_log' = Append(fetch_log, page_num + 1)
            /\ pc' = "body"
    /\ UNCHANGED <<page_num, writes, detail_log, failed_page>>

\* The page request is answered with a success status.
PageResponse ==
    /\ UNCHANGED diffVars
    /\ gen_pc = "awaiting"
    /\ PageRequest(page_num) \in in_flight
    /\ in_flight' = in_flight \ {PageRequest(page_num)}
    /\ \E result \in ResponseJson(page_num) :
           /\ source' = (page_num :> result) @@ source
           /\ reports' = ResultGetReports(result)
    /\ IF reports' = <<>>
       THEN \* break: the generator returns, the for loop ends
            /\ gen_pc' = "returned"
            /\ pc' = "done"
            /\ UNCHANGED <<idx, item, delivered>>
       ELSE /\ gen_pc' = "suspended"
            /\ idx' = 1
            /\ item' = YieldedTuple(reports'[1])
            /\ delivered' = Append(delivered, item')
            /\ pc' = "body"
    /\ UNCHANGED <<page_num, fetch_log, writes, detail_log, failed_page>>

\* Variant: the HTTPError is caught and ends the sequence like an empty page
PageFailure_Swallow ==
    /\ UNCHANGED diffVars
    /\ gen_pc = "awaiting"
    /\ PageRequest(page_num) \in in_flight
    /\ in_flight' = in_flight \ {PageRequest(page_num)}
    /\ failed_page' = page_num
    /\ gen_pc' = "returned"
    /\ pc' = "done"
    /\ UNCHANGED <<source, page_num, reports, idx, item, fetch_log, delivered,
                   writes, detail_log>>

\* The page request is answered with an error status: _raise_for_status
\* re-raises the HTTPError, which leaves the generator and the for loop.
PageFailure ==
    /\ UNCHANGED diffVars
    /\ gen_pc = "awaiting"
    /\ PageRequest(page_num) \in in_flight
    /\ in_flight' = in_flight \ {PageRequest(page_num)}
    /\ failed_page' = page_num
    /\ gen_pc' = "raised"
    /\ pc' = "raised"
    /\ UNCHANGED <<source, page_num, reports, idx, item, fetch_log, delivered,
                   writes, detail_log>>

\* export_definitions, loop body: the summary file is written
WriteSummary ==
    /\ UNCHANGED diffVars
    /\ pc = "body"
    /\ writes' = Append(writes, SummaryFile(item[1], item[3]))
    /\ pc' = "summary_written"
    /\ UNCHANGED <<source, page_num, reports, idx, gen_pc, item, in_flight,
                   fetch_log, delivered, detail_log, failed_page>>

\* Variant: the details of a report id already fetched are not fetched again
SendDetailRequest_Dedup ==
    /\ UNCHANGED diffVars
    /\ pc = "summary_written"
    /\ IF \E i \in DOMAIN detail_log : detail_log[i] = item[1]
       THEN /\ pc' = "for"
            /\ UNCHANGED <<in_flight, detail_log>>
       ELSE /\ in_flight' = in_flight \cup {DetailRequest(item[1])}
            /\ detail_log' = Append(detail_log, item[1])
            /\ pc' = "awaiting_detail"
    /\ UNCHANGED <<source, page_num, reports, idx, gen_pc, item, fetch_log,
                   delivered, writes, failed_page>>

\* requests.get(.../xray/api/v1/reports/{report_id}) is sent
SendDetailRequest ==
    /\ UNCHANGED diffVars
    /\ pc = "summary_written"
    /\ in_flight' = in_flight \cup {DetailRequest(item[1])}
    /\ detail_log' = Append(detail_log, item[1])
    /\ pc' = "awaiting_detail"
    /\ UNCHANGED <<source, page_num, reports, idx, gen_pc, item, fetch_log,
                   delivered, writes, failed_page>>

\* The detail request succeeds and the details file is written.
DetailResponse ==
    /\ UNCHANGED diffVars
    /\ pc = "awaiting_detail"
    /\ DetailRequest(item[1]) \in in_flight
    /\ in_flight' = in_flight \ {DetailRequest(item[1])}
    /\ writes' = Append(writes, DetailsFile(item[1]))
    /\ pc' = "for"
    /\ UNCHANGED <<source, page_num, reports, idx, gen_pc, item, fetch_log,
                   delivered, detail_log, failed_page>>

\* The detail request fails: export_definitions raises, the generator is
\* left suspended and never resumed.
DetailFailure ==
    /\ UNCHANGED diffVars
    /\ pc = "awaiting_detail"
    /\ DetailRequest(item[1]) \in in_flight
    /\ in_flight' = in_flight \ {DetailRequest(item[1])}
    /\ pc' = "raised"
    /\ UNCHANGED <<source, page_num, reports, idx, gen_pc, item, fetch_log,
                   delivered, writes, detail_log, failed_page>>

NextReports ==
    \/ ForNextFetch
    \/ ForNextYield
    \/ PageResponse
    \/ PageFailure
    \/ WriteSummary
    \/ SendDetailRequest
    \/ DetailResponse
    \/ DetailFailure

SpecReports == InitReports /\ [][NextReports]_vars

\* ------------------------------------------------------------------------
\* artifactory/sites_diff.py
\* ------------------------------------------------------------------------
InitDiff ==
    /\ exclude_artifacts \in BOOLEAN
    /\ DiffStart
    /\ ReportsStart
    /\ source = EmptyMap

\* Variant: the operands of the difference are exchanged
MissingIn1_Swapped(keys_1, keys_2) == keys_1 \ keys_2

\* repositories_2_keys - repositories_1_keys
MissingIn1(keys_1, keys_2) == keys_2 \ keys_1

\* repositories_1_keys - repositories_2_keys
MissingIn2(keys_1, keys_2) == keys_1 \ keys_2

\* Variant: the type of site 1 is compared with itself
RclassDiffers_Self(descriptor_1, descriptor_2) == descriptor_1.type # descriptor_1.type

\* if rclass_1 != rclass_2
RclassDiffers(descriptor_1, descriptor_2) == descriptor_1.type # descriptor_2.type

\* if repositories_1[key]["type"] in {"VIRTUAL", "REMOTE"}: continue
Skipped(k) == repositories_1[k].type \in {"VIRTUAL", "REMOTE"}

\* Variant: both checksums must differ
ItemDiffers_Both(item_in_1, item_in_2) ==
    item_in_1.sha1 # item_in_2.sha1 /\ item_in_1.sha2 # item_in_2.sha2

\* if item_in_1["sha1"] != item_in_2["sha1"] or item_in_1["sha2"] != item_in_2["sha2"]
ItemDiffers(item_in_1, item_in_2) ==
    item_in_1.sha1 # item_in_2.sha1 \/ item_in_1.sha2 # item_in_2.sha2

\* artifacts_report.setdefault(key, {})
ArtifactsReportSetDefault(ar, k) ==
    IF k \in DOMAIN ar THEN ar ELSE (k :> EmptyMap) @@ ar

\* Variant: the list is stored whether or not it is empty
StoreMissing_Always(ar, k, field, uri_list) ==
    LET a == ArtifactsReportSetDefault(ar, k)
    IN  [a EXCEPT ![k] = (field :> uri_list) @@ a[k]]

\* if uris: _artifacts_report()[field] = list(uris)
StoreMissing(ar, k, field, uri_list) ==
    IF uri_list # <<>>
    THEN LET a == ArtifactsReportSetDefault(ar, k)
         IN  [a EXCEPT ![k] = (field :> uri_list) @@ a[k]]
    ELSE ar

\* _artifacts_report().setdefault("diffs", []).append(uri)
AppendDiff(ar, k, uri) ==
    LET a == ArtifactsReportSetDefault(ar, k)
        old == IF "diffs" \in DOMAIN a[k] THEN a[k]["diffs"] ELSE <<>>
    IN  [a EXCEPT ![k] = ("diffs" :> Append(old, uri)) @@ a[k]]

\* for uri in items_existing_in_both: ...
RECURSIVE DiffLoop(_, _, _, _, _)
DiffLoop(ar, k, order, items_1, items_2) ==
    IF order = <<>>
    THEN ar
    ELSE LET uri == Head(order)
         IN  DiffLoop(IF ItemDiffers(items_1[uri], items_2[uri])
                      THEN AppendDiff(ar, k, uri)
                      ELSE ar,
                      k, Tail(order), items_1, items_2)

\* for key in exists_in_both: if rclass_1 != rclass_2: rclass_mismatch.append(key)
RECURSIVE RclassLoop(_, _)
RclassLoop(acc, order) ==
    IF order = <<>>
    THEN acc
    ELSE LET k == Head(order)
         IN  RclassLoop(IF RclassDiffers(repositories_1[k], repositories_2[k])
                        THEN Append(acc, k)
                        ELSE acc,
                        Tail(order))

\* The record of repository k in the artifacts map, if it has one
EntryOf(ar, k) ==
    IF ar # None /\ k \in DOMAIN ar[1] THEN Some(ar[1][k]) ELSE None

\* repositories_1 = _repository_keys(url_1, token_1)
RepositoryKeys1 ==
    /\ UNCHANGED reportVars
    /\ diff_pc = "start"
    /\ \E listing \in RepositoryListings : repositories_1' = listing
    /\ diff_pc' = "repositories_1"
    /\ UNCHANGED <<exclude_artifacts, repositories_2, missing_in_1, missing_in_2,
                   exists_in_both, rclass_mismatch, artifacts_report, to_visit, key,
                   items_in_1, items_in_2, stdout, list_calls, compared,
                   failed_call>>

\* _raise_for_status raises inside _repository_keys(url_1, token_1)
RepositoryKeys1Failure ==
    /\ UNCHANGED reportVars
    /\ diff_pc = "start"
    /\ failed_call' = Some(<<"repository_keys", 1, NoKey>>)
    /\ diff_pc' = "raised"
    /\ UNCHANGED <<exclude_artifacts, repositories_1, repositories_2, missing_in_1,
                   missing_in_2, exists_in_both, rclass_mismatch, artifacts_report,
                   to_visit, key, items_in_1, items_in_2, stdout, list_calls,
                   compared>>

\* repositories_2 = _repository_keys(url_2, token_2)
RepositoryKeys2 ==
    /\ UNCHANGED reportVars
    /\ diff_pc = "repositories_1"
    /\ \E listing \in RepositoryListings : repositories_2' = listing
    /\ diff_pc' = "repositories_2"
    /\ UNCHANGED <<exclude_artifacts, repositories_1, missing_in_1, missing_in_2,
                   exists_in_both, rclass_mismatch, artifacts_report, to_visit, key,
                   items_in_1, items_in_2, stdout, list_calls, compared,
                   failed_call>>

RepositoryKeys2Failure ==
    /\ UNCHANGED reportVars
    /\ diff_pc = "repositories_1"
    /\ failed_call' = Some(<<"repository_keys", 2, NoKey>>)
    /\ diff_pc' = "raised"
    /\ UNCHANGED <<exclude_artifacts, repositories_1, repositories_2, missing_in_1,
                   missing_in_2, exists_in_both, rclass_mismatch, artifacts_report,
                   to_visit, key, items_in_1, items_in_2, stdout, list_calls,
                   compared>>

\* Lines 70-90: the key sets, the rclass loop, and artifacts_report = None
\* or {} before the artifact loop.
CompareRepositories ==
    /\ UNCHANGED reportVars
    /\ diff_pc = "repositories_2"
    /\ missing_in_1' = MissingIn1(DOMAIN repositories_1, DOMAIN repositories_2)
    /\ missing_in_2' = MissingIn2(DOMAIN repositories_1, DOMAIN repositories_2)
    /\ exists_in_both' = DOMAIN repositories_1 \cap DOMAIN repositories_2
    /\ \E order \in Orderings(exists_in_both') :
           rclass_mismatch' = RclassLoop(<<>>, order)
    /\ IF exclude_artifacts
       THEN artifacts_report' = None /\ to_visit' = {}
       ELSE artifacts_report' = Some(EmptyMap) /\ to_visit' = exists_in_both'
    /\ diff_pc' = "loop"
    /\ UNCHANGED <<exclude_artifacts, repositories_1, repositories_2, key,
                   items_in_1, items_in_2, stdout, list_calls, compared, failed_call>>

\* for key in exists_in_both: a VIRTUAL or REMOTE repository is passed over
LoopSkip ==
    /\ UNCHANGED reportVars
    /\ diff_pc = "loop"
    /\ \E k \in to_visit :
           /\ Skipped(k)
           /\ key' = k
           /\ to_visit' = to_visit \ {k}
    /\ UNCHANGED <<exclude_artifacts, repositories_1, repositories_2, missing_in_1,
                   missing_in_2, exists_in_both, rclass_mismatch, artifacts_report,
                   items_in_1, items_in_2, diff_pc, stdout, list_calls, compared, failed_call>>

\* for key in exists_in_both: items_in_1 = _list_items(url_1, token_1, key)
ListItems1 ==
    /\ UNCHANGED reportVars
    /\ diff_pc = "loop"
    /\ \E k \in to_visit :
           /\ ~Skipped(k)
           /\ key' = k
           /\ to_visit' = to_visit \ {k}
    /\ list_calls' = Append(list_calls, <<1, key'>>)
    /\ \E listing \in ItemListings : items_in_1' = listing
    /\ diff_pc' = "items_1"
    /\ UNCHANGED <<exclude_artifacts, repositories_1, repositories_2, missing_in_1,
                   missing_in_2, exists_in_both, rclass_mismatch, artifacts_report,
                   items_in_2, stdout, compared, failed_call>>

\* _raise_for_status raises inside _list_items(url_1, token_1, key)
ListItems1Failure ==
    /\ UNCHANGED reportVars
    /\ diff_pc = "loop"
    /\ \E k \in to_visit :
           /\ ~Skipped(k)
           /\ key' = k
           /\ to_visit' = to_visit \ {k}
    /\ list_calls' = Append(list_calls, <<1, key'>>)
    /\ failed_call' = Some(<<"list_items", 1, key'>>)
    /\ diff_pc' = "raised"
    /\ UNCHANGED <<exclude_artifacts, repositories_1, repositories_2, missing_in_1,
                   missing_in_2, exists_in_both, rclass_mismatch, artifacts_report,
                   items_in_1, items_in_2, stdout, compared>>

\* items_in_2 = _list_items(url_2, token_2, key)
ListItems2 ==
    /\ UNCHANGED reportVars
    /\ diff_pc = "items_1"
    /\ list_calls' = Append(list_calls, <<2, key>>)
    /\ \E listing \in ItemListings : items_in_2' = listing
    /\ diff_pc' = "items_2"
    /\ UNCHANGED <<exclude_artifacts, repositories_1, repositories_2, missing_in_1,
                   missing_in_2, exists_in_both, rclass_mismatch, artifacts_report,
                   to_visit, key, items_in_1, stdout, compared, failed_call>>

\* Variant: the HTTPError of the second listing is caught and the repository
\* passed over
ListItems2Failure_Swallow ==
    /\ UNCHANGED reportVars
    /\ diff_pc = "items_1"
    /\ list_calls' = Append(list_calls, <<2, key>>)
    /\ failed_call' = Some(<<"list_items", 2, key>>)
    /\ diff_pc' = "loop"
    /\ UNCHANGED <<exclude_artifacts, repositories_1, repositories_2, missing_in_1,
                   missing_in_2, exists_in_both, rclass_mismatch, artifacts_report,
                   to_visit, key, items_in_1, items_in_2, stdout, compared>>

\* _raise_for_status raises inside _list_items(url_2, token_2, key)
ListItems2Failure ==
    /\ UNCHANGED reportVars
    /\ diff_pc = "items_1"
    /\ list_calls' = Append(list_calls, <<2, key>>)
    /\ failed_call' = Some(<<"list_items", 2, key>>)
    /\ diff_pc' = "raised"
    /\ UNCHANGED <<exclude_artifacts, repositories_1, repositories_2, missing_in_1,
                   missing_in_2, exists_in_both, rclass_mismatch, artifacts_report,
                   to_visit, key, items_in_1, items_in_2, stdout, compared>>

\* Lines 101-115: the artifact level difference of one repository
CompareArtifacts ==
    /\ UNCHANGED reportVars
    /\ diff_pc = "items_2"
    /\ LET items_in_1_uris == DOMAIN items_in_1
           items_in_2_uris == DOMAIN items_in_2
           missing_in_1_uris == items_in_2_uris \ items_in_1_uris
           missing_in_2_uris == items_in_1_uris \ items_in_2_uris
           items_existing_in_both == items_in_1_uris \cap items_in_2_uris
       IN  \E list_1 \in Orderings(missing_in_1_uris),
              list_2 \in Orderings(missing_in_2_uris),
              order \in Orderings(items_existing_in_both) :
               artifacts_report' =
                   Some(DiffLoop(
                       StoreMissing(
                           StoreMissing(artifacts_report[1], key, "missing_in_1", list_1),
                           key, "missing_in_2", list_2),
                       key, order, items_in_1, items_in_2))
    /\ compared' = (key :> EntryOf(artifacts_report', key)) @@ compared
    /\ diff_pc' = "loop"
    /\ UNCHANGED <<exclude_artifacts, repositories_1, repositories_2, missing_in_1,
                   missing_in_2, exists_in_both, rclass_mismatch, to_visit, key,
                   items_in_1, items_in_2, stdout, list_calls,
                   failed_call>>

\* Lines 117-126: the report is assembled and written to standard output
DumpReport ==
    /\ UNCHANGED reportVars
    /\ diff_pc = "loop"
    /\ to_visit = {}
    /\ \E list_1 \in Orderings(missing_in_1), list_2 \in Orderings(missing_in_2) :
           stdout' = Some([repositories |-> [missing_in_1 |-> list_1,
                                             missing_in_2 |-> list_2,
                                             rclass_mismatch |-> rclass_mismatch],
                           artifacts |-> artifacts_report])
    /\ diff_pc' = "done"
    /\ UNCHANGED <<exclude_artifacts, repositories_1, repositories_2, missing_in_1,
                   missing_in_2, exists_in_both, rclass_mismatch, artifacts_report,
                   to_visit, key, items_in_1, items_in_2, list_calls, compared, failed_call>>

NextDiff ==
    \/ RepositoryKeys1
    \/ RepositoryKeys1Failure
    \/ RepositoryKeys2
    \/ RepositoryKeys2Failure
    \/ CompareRepositories
    \/ LoopSkip
    \/ ListItems1
    \/ ListItems1Failure
    \/ ListItems2
    \/ ListItems2Failure
    \/ CompareArtifacts
    \/ DumpReport

SpecDiff == InitDiff /\ [][NextDiff]_vars

\* ------------------------------------------------------------------------
\* Properties of the paginated walk
\* ------------------------------------------------------------------------
\* The records the service has answered for page n (none for a page it has
\* not answered)
PageRecords(n) ==
    IF n \in DOMAIN source /\ "reports" \in DOMAIN source[n]
    THEN source[n].reports
    ELSE <<>>

\* The first page without a record among the pages answered so far, or the
\* page after them
FirstEmptyPage ==
    CHOOSE k \in 1..(MaxPages + 1) :
        /\ PageRecords(k) = <<>>
        /\ \A j \in 1..(k - 1) : PageRecords(j) # <<>>

\* Pages 1..n, concatenated
RECURSIVE RecordsUpTo(_)
RecordsUpTo(n) == IF n <= 0 THEN <<>> ELSE RecordsUpTo(n - 1) \o PageRecords(n)

AsTuples(records) ==
    [i \in DOMAIN records |-> <<records[i].id, records[i].name, records[i]>>]

IsPrefix(s, t) == Len(s) <= Len(t) /\ \A i \in DOMAIN s : s[i] = t[i]

PagesFrom1To(k) == [i \in 1..k |-> i]

IsSummaryWrite(w) == w.path[2] = "summary"

IsDetailsWrite(w) == w.path[2] = "details"

\* C1: the generator, consumed to its end, has yielded the records of the
\* pages before the first empty page, in page order and in the order of each
\* page, and has fetched the pages 1..k once each, in that order, k being the
\* first empty page; at no time has it fetched or yielded anything else.
C1_FullConsumption ==
    LET k == FirstEmptyPage
        expected == AsTuples(RecordsUpTo(k - 1))
    IN  /\ IsPrefix(fetch_log, PagesFrom1To(k))
        /\ IsPrefix(delivered, expected)
        /\ gen_pc = "returned" =>
               /\ fetch_log = PagesFrom1To(k)
               /\ delivered = expected

\* Pages [r1,r2],[r3],[] were consumed to the end: three records, three fetches
C1_Witness ==
    /\ gen_pc = "returned"
    /\ Len(PageRecords(1)) = 2
    /\ Len(PageRecords(2)) = 1
    /\ PageRecords(3) = <<>>
    /\ Len(delivered) = 3
    /\ fetch_log = <<1, 2, 3>>

\* C5: once the fetch of page j has failed, the error has reached the
\* consumer, the records delivered are exactly those of pages 1..j-1, the
\* pages fetched are exactly 1..j, each once, and no request is pending.
C5_FetchFailureAborts ==
    failed_page # 0 =>
        /\ gen_pc = "raised"
        /\ pc = "raised"
        /\ fetch_log = PagesFrom1To(failed_page)
        /\ delivered = AsTuples(RecordsUpTo(failed_page - 1))
        /\ in_flight = {}

\* The fetch of page 2 failed after the two records of page 1 were delivered
C5_Witness ==
    /\ failed_page = 2
    /\ Len(PageRecords(1)) = 2
    /\ Len(delivered) = 2
    /\ pc = "raised"

\* C7: export_definitions writes the summary of every record of the pages
\* before the first empty page, and fetches its details, in discovery order;
\* each detail fetch follows the summary of the same record; when the
\* export ends, every record has one summary and one detail fetch.
C7_ExportInDiscoveryOrder ==
    LET summaries == SelectSeq(writes, IsSummaryWrite)
        expected == RecordsUpTo(FirstEmptyPage - 1)
    IN  /\ Len(summaries) <= Len(expected)
        /\ \A i \in DOMAIN summaries :
               summaries[i] = [path |-> <<expected[i].id, "summary">>,
                               content |-> expected[i]]
        /\ Len(detail_log) <= Len(summaries)
        /\ Len(summaries) - Len(detail_log) <= 1
        /\ \A i \in DOMAIN detail_log : detail_log[i] = expected[i].id
        /\ pc = "done" =>
               /\ Len(summaries) = Len(expected)
               /\ Len(detail_log) = Len(expected)

\* Three pages of two summaries, then an empty page: six and six
C7_Witness ==
    /\ pc = "done"
    /\ \A n \in 1..3 : Len(PageRecords(n)) = 2
    /\ Len(SelectSeq(writes, IsSummaryWrite)) = 6
    /\ Len(detail_log) = 6

\* C10: at most one request is in flight; a page request is in flight only
\* while the consumer waits for its next record; and a page has been
\* requested only if every record of the pages before it has been delivered
\* and its details fetched and written.
C10_NoLookAhead ==
    LET details_written == Len(SelectSeq(writes, IsDetailsWrite))
    IN  /\ Cardinality(in_flight) <= 1
        /\ \A r \in in_flight :
               r.kind = "page" =>
                   /\ pc = "in_generator"
                   /\ r.arg = fetch_log[Len(fetch_log)]
                   /\ Len(delivered) = Len(RecordsUpTo(r.arg - 1))
        /\ \A i \in DOMAIN fetch_log :
               LET before == Len(RecordsUpTo(fetch_log[i] - 1))
               IN  /\ Len(delivered) >= before
                   /\ Len(detail_log) >= before
                   /\ details_written >= before

\* Page 2 is being fetched, after the details of both records of page 1
C10_Witness ==
    /\ PageRequest(2) \in in_flight
    /\ Len(PageRecords(1)) = 2
    /\ Len(detail_log) = 2

\* ------------------------------------------------------------------------
\* Properties of the site difference
\* ------------------------------------------------------------------------
Aggregating == {"VIRTUAL", "REMOTE"}

\* The artifacts map of the run so far (empty while it is None)
ArtifactsMap == IF artifacts_report = None THEN EmptyMap ELSE artifacts_report[1]

\* The paths a record holds under a field
FieldPaths(record, field) ==
    IF field \in DOMAIN record THEN Range(record[field]) ELSE {}

\* The record of repository k, empty when it has none
RecordOf(k) == IF k \in DOMAIN ArtifactsMap THEN ArtifactsMap[k] ELSE EmptyMap

\* The comparison of repository `key` has just ended: items_in_1 and
\* items_in_2 are its two listings.
JustCompared ==
    /\ diff_pc \in {"loop", "done"}
    /\ key # NoKey
    /\ repositories_1[key].type \notin Aggregating

\* What was recorded for a repository when its comparison ended is what the
\* map holds for it ever after.
RecordsStable ==
    \A k \in DOMAIN compared :
        compared[k] = IF k \in DOMAIN ArtifactsMap THEN Some(ArtifactsMap[k]) ELSE None

NoDuplicates(list) == \A i, j \in DOMAIN list : i # j => list[i] # list[j]

\* C2: no repository that is VIRTUAL or REMOTE on either side is a key of
\* the artifacts map.
C2_AggregatingNeverKey ==
    \A k \in DOMAIN ArtifactsMap :
        /\ repositories_1[k].type \notin Aggregating
        /\ repositories_2[k].type \notin Aggregating

\* C3: in the report, missing_in_1 is the identifiers of side 2 only and
\* missing_in_2 those of side 1 only; with exists_in_both they are pairwise
\* disjoint and cover exactly the identifiers of both sides.
C3_RepositoryPartition ==
    stdout # None =>
        LET m1 == Range(stdout[1].repositories.missing_in_1)
            m2 == Range(stdout[1].repositories.missing_in_2)
            keys_1 == DOMAIN repositories_1
            keys_2 == DOMAIN repositories_2
        IN  /\ m1 = {k \in keys_2 : k \notin keys_1}
            /\ m2 = {k \in keys_1 : k \notin keys_2}
            /\ m1 \cap m2 = {}
            /\ m1 \cap exists_in_both = {}
            /\ m2 \cap exists_in_both = {}
            /\ m1 \cup m2 \cup exists_in_both = keys_1 \cup keys_2

\* A report with a repository on side 2 only and one on both sides
C3_Witness ==
    /\ stdout # None
    /\ stdout[1].repositories.missing_in_1 # <<>>
    /\ exists_in_both # {}

\* C4: the diffs of a compared repository are exactly the paths listed on
\* both sides whose sha1 or sha2 differ, each once; no path of diffs is in
\* missing_in_1 or missing_in_2, and these two are disjoint; the record does
\* not change afterwards.
C4_ArtifactDiffs ==
    /\ RecordsStable
    /\ JustCompared =>
           LET diffs == FieldPaths(RecordOf(key), "diffs")
               m1 == FieldPaths(RecordOf(key), "missing_in_1")
               m2 == FieldPaths(RecordOf(key), "missing_in_2")
           IN  /\ diffs = {u \in DOMAIN items_in_1 \cap DOMAIN items_in_2 :
                              \/ items_in_1[u].sha1 # items_in_2[u].sha1
                              \/ items_in_1[u].sha2 # items_in_2[u].sha2}
               /\ "diffs" \in DOMAIN RecordOf(key) => NoDuplicates(RecordOf(key)["diffs"])
               /\ diffs \cap m1 = {}
               /\ diffs \cap m2 = {}
               /\ m1 \cap m2 = {}

\* x.jar is (h1,h2) on side 1 and (h1,h3) on side 2: diffs = [x.jar], nothing missing
C4_Witness ==
    /\ JustCompared
    /\ DOMAIN items_in_1 = {"x.jar"}
    /\ DOMAIN items_in_2 = {"x.jar"}
    /\ items_in_1["x.jar"].sha1 = "h1" /\ items_in_1["x.jar"].sha2 = "h2"
    /\ items_in_2["x.jar"].sha1 = "h1" /\ items_in_2["x.jar"].sha2 = "h3"
    /\ RecordOf(key) = [diffs |-> <<"x.jar">>]

\* C6: when a listing of artifacts has failed the run has raised and has
\* written no report, and the failed call was made once; a report that is
\* written with the artifacts compared covers every repository of both sides
\* that is not passed over, each listed once on each side.
C6_ListingFailureAborts ==
    /\ failed_call # None =>
           /\ diff_pc = "raised"
           /\ stdout = None
           /\ failed_call[1][1] = "list_items" =>
                  /\ list_calls # <<>>
                  /\ list_calls[Len(list_calls)] = <<failed_call[1][2], failed_call[1][3]>>
    /\ NoDuplicates(list_calls)
    /\ (stdout # None /\ ~exclude_artifacts) =>
           \A k \in exists_in_both :
               repositories_1[k].type \notin Aggregating =>
                   /\ k \in DOMAIN compared
                   /\ \E i \in DOMAIN list_calls : list_calls[i] = <<1, k>>
                   /\ \E i \in DOMAIN list_calls : list_calls[i] = <<2, k>>

\* The listing of a second repository failed on side 2 after a first
\* repository was compared and found different
C6_Witness ==
    /\ failed_call # None
    /\ failed_call[1][1] = "list_items"
    /\ failed_call[1][2] = 2
    /\ Len(list_calls) = 4
    /\ DOMAIN ArtifactsMap # {}

\* C8: every record of the artifacts map has a non-empty list, and a
\* repository is a key only if its two listings differ in a path or in a
\* checksum; the record does not change afterwards.
C8_EntryOnlyIfDifferent ==
    /\ RecordsStable
    /\ \A k \in DOMAIN ArtifactsMap :
           /\ DOMAIN ArtifactsMap[k] \subseteq {"missing_in_1", "missing_in_2", "diffs"}
           /\ \E f \in DOMAIN ArtifactsMap[k] : ArtifactsMap[k][f] # <<>>
    /\ (JustCompared /\ key \in DOMAIN ArtifactsMap) =>
           \/ DOMAIN items_in_1 # DOMAIN items_in_2
           \/ \E u \in DOMAIN items_in_1 :
                  \/ items_in_1[u].sha1 # items_in_2[u].sha1
                  \/ items_in_1[u].sha2 # items_in_2[u].sha2

\* A repository with two identical non-empty listings was compared and has
\* no record
C8_Witness ==
    /\ JustCompared
    /\ DOMAIN items_in_1 = Uris
    /\ items_in_1 = items_in_2
    /\ key \notin DOMAIN ArtifactsMap

\* C9: in the report, rclass_mismatch lists exactly the identifiers of both
\* sides whose type differs between the sides, each once; when both sides
\* hold the same identifiers with the same types the three lists are empty.
C9_RclassMismatch ==
    stdout # None =>
        LET r == stdout[1].repositories
            keys_1 == DOMAIN repositories_1
            keys_2 == DOMAIN repositories_2
        IN  /\ Range(r.rclass_mismatch) =
                   {k \in keys_1 \cap keys_2 :
                       repositories_1[k].type # repositories_2[k].type}
            /\ NoDuplicates(r.rclass_mismatch)
            /\ Range(r.rclass_mismatch) \subseteq exists_in_both
            /\ (/\ keys_1 = keys_2
                /\ \A k \in keys_1 : repositories_1[k].type = repositories_2[k].type)
               => /\ r.rclass_mismatch = <<>>
                  /\ r.missing_in_1 = <<>>
                  /\ r.missing_in_2 = <<>>

\* A report in which both repositories have a type mismatch
C9_Witness ==
    /\ stdout # None
    /\ Len(stdout[1].repositories.rclass_mismatch) = 2

====
